---- MODULE Spec2Model ----
(***************************************************************************)
(* A model of vawter.tech/notify: the reactive cell notify.Var, the        *)
(* Aggregation registry (Aggregate, Choose, Len, Updated and its           *)
(* background waiter) and the ExampleAggregation drain loop.               *)
(*                                                                         *)
(* A channel is modelled by its identity <<cell, k>> (the k-th channel     *)
(* minted for the cell); closing a channel adds it to the set closed.      *)
(***************************************************************************)
EXTENDS Integers, Naturals, Sequences, FiniteSets, TLC

\* ------------------------------------------------------------------ bounds
NumCells == 2
MaxGen == 2
MaxCalls == 1
NumThreads == 2

Cells == 1..NumCells
StringCells == (NumCells + 1)..(2 * NumCells)
AllCells == Cells \cup StringCells
Calls == 1..MaxCalls
Threads == 1..NumThreads
SetValues == {1, 10}
Transforms == {"tenfold", "fail"}
Nil == 0
NoCh == <<0, 0>>

\* ------------------------------------------------------------------ state
VARIABLES
    value,          \* Var: the current value of each cell
    signal,         \* Var: the channel of each cell's current generation
    closed,         \* the set of channels that have been closed
    gen,            \* history: number of Set / successful Update calls per cell
    ret,            \* the return values of the last Aggregate, Choose or Update call
    obs,            \* an observer's last Get: the cell, the pair and its generation
    m,              \* Aggregation.mu.m: registered cell -> captured channel
    regGen,         \* history: gen of a registered cell at its last Aggregate
    firstGen,       \* history: gen of a registered cell at its first Aggregate
    chooseCount,    \* history: times Choose returned a cell since its last Aggregate
    rearmed,        \* history: cells registered again after Choose had removed them
    cancelled,      \* ctx.Done() is closed
    upc,            \* per Updated call: "idle", "scan" or "returned"
    toWatch,        \* per Updated call: the snapshot of the registry's channels
    idx,            \* per Updated call: the scan loop's position in toWatch
    uret,           \* per Updated call: the returned channel, "open" or "closed"
    waiter,         \* per Updated call: the goroutine, "none", "running" or "done"
    snapFired,      \* history: some snapshot channel was closed at snapshot time
    snapCancelled,  \* history: ctx was cancelled at snapshot time
    mainPc,         \* ExampleAggregation: position of the main goroutine
    setter,         \* ExampleAggregation: the "go v.Set(...)" goroutines
    sampled,        \* ExampleAggregation: the value Aggregate returned for a cell
    seen,           \* ExampleAggregation: the cells obtained from Choose, in order
    stopping,       \* stopper.Context: Stopping() is closed
    nx,             \* notifyx: the running combinator, its position and its locals
    lastOk,         \* history: the new argument of the last callback that returned nil
    cb,             \* history: the arguments and the result of the last callback
    prev,           \* history: the outcome of the call before the last one
    writer,         \* Aggregation.mu: the thread that holds the write lock, or Nil
    readers,        \* Aggregation.mu: the threads that hold the read lock
    tpc,            \* per thread: "idle", "lock", "held" or "unlocked"
    top,            \* per thread: the method it is calling
    targ            \* per thread: the cell it passes to Aggregate

varVars == <<value, signal, closed, gen>>
obsVars == <<ret, obs>>
aggVars == <<m, regGen, firstGen, chooseCount, rearmed>>
ctxVars == <<cancelled>>
updVars == <<upc, toWatch, idx, uret, waiter, snapFired, snapCancelled>>
exVars == <<mainPc, setter, sampled, seen>>
nxVars == <<stopping, nx, lastOk, cb, prev>>
lockVars == <<writer, readers, tpc, top, targ>>
vars == <<varVars, obsVars, aggVars, ctxVars, updVars, exVars, nxVars, lockVars>>

\* ------------------------------------------------------------------ helpers
Min(a, b) == IF a < b THEN a ELSE b

Range(s) == {s[i] : i \in DOMAIN s}

\* The enumerations of a finite set, each element once: the orders in which
\* a Go map may be iterated.
Orders(S) ==
    {s \in [1..Cardinality(S) -> S] : \A i, j \in 1..Cardinality(S) : i # j => s[i] # s[j]}

\* A non-blocking receive from a channel succeeds iff the channel is closed.
Fired(c) == c \in closed

\* ------------------------------------------------------------------ strings
\* A Go string is the sequence of its bytes.
StrX == <<88, 32>>

StrUpdated == <<32, 85, 112, 100, 97, 116, 101, 100>>

\* strconv.Itoa of a number that is not negative: its decimal digits.
RECURSIVE Itoa(_)
Itoa(n) == IF n < 10 THEN <<48 + n>> ELSE Itoa(n \div 10) \o <<48 + (n % 10)>>

\* a < b on strings: the byte-wise lexical order.
StringLess(a, b) ==
    \/ \E i \in 1..Min(Len(a), Len(b)) : a[i] < b[i] /\ \A j \in 1..(i - 1) : a[j] = b[j]
    \/ Len(a) < Len(b) /\ \A j \in 1..Len(a) : a[j] = b[j]

\* The position of s[i] in the sorted slice: equal strings keep their order.
SortRank(s, i) ==
    1 + Cardinality({j \in DOMAIN s : StringLess(s[j], s[i]) \/ (s[j] = s[i] /\ j < i)})

\* slices.Sort on a slice of strings.
SortStrings(s) == [r \in DOMAIN s |-> s[CHOOSE i \in DOMAIN s : SortRank(s, i) = r]]

\* ------------------------------------------------------------------ notify.Var
\* VarOf(initial): ExampleAggregation builds its int cells as VarOf(i + 1) and
\* its string cells as VarOf("X " + strconv.Itoa(i + 1)).
InitialValue(c) == IF c \in Cells THEN c ELSE StrX \o Itoa(c - NumCells)

\* Var.Get: the value and the channel of the current generation, one snapshot.
VarGet(c) == <<value[c], signal[c]>>

\* A faulty Set: the value is replaced but the generation's channel is kept.
VarSetStale(c, v) ==
    /\ value' = [value EXCEPT ![c] = v]
    /\ gen' = [gen EXCEPT ![c] = @ + 1]
    /\ UNCHANGED <<closed, signal>>

\* Var.Set: install the value, close the generation's channel, mint a new one.
VarSet(c, v) ==
    /\ value' = [value EXCEPT ![c] = v]
    /\ closed' = closed \cup {signal[c]}
    /\ signal' = [signal EXCEPT ![c] = <<c, signal[c][2] + 1>>]
    /\ gen' = [gen EXCEPT ![c] = @ + 1]

\* The user-supplied transform of Update: its result and whether it fails.
TransformFails(t) == t = "fail"

TransformResult(t, old) == IF t = "tenfold" THEN 10 * old ELSE old

\* A faulty Update: the generation is rotated whether the transform fails or not.
VarUpdateNotifyOnFail(c, t) ==
    IF TransformFails(t)
    THEN /\ ret' = [op |-> "Update", cell |-> c, val |-> value[c], old |-> value[c], ok |-> FALSE]
         /\ VarSet(c, value[c])
    ELSE /\ ret' = [op |-> "Update", cell |-> c,
                     val |-> TransformResult(t, value[c]), old |-> value[c], ok |-> TRUE]
         /\ VarSet(c, TransformResult(t, value[c]))

\* Var.Update: a failing transform leaves the cell alone; otherwise as Set.
VarUpdate(c, t) ==
    IF TransformFails(t)
    THEN /\ ret' = [op |-> "Update", cell |-> c, val |-> value[c], old |-> value[c], ok |-> FALSE]
         /\ UNCHANGED varVars
    ELSE /\ ret' = [op |-> "Update", cell |-> c,
                     val |-> TransformResult(t, value[c]), old |-> value[c], ok |-> TRUE]
         /\ VarSet(c, TransformResult(t, value[c]))

Set(c, v) ==
    /\ gen[c] < MaxGen
    /\ VarSet(c, v)
    /\ UNCHANGED <<obsVars, aggVars, ctxVars, updVars, exVars, nxVars, lockVars>>

Update(c, t) ==
    /\ gen[c] < MaxGen
    /\ VarUpdate(c, t)
    /\ UNCHANGED <<obs, aggVars, ctxVars, updVars, exVars, nxVars, lockVars>>

Get(c) ==
    /\ obs' = [cell |-> c, val |-> VarGet(c)[1], sig |-> VarGet(c)[2], gen |-> gen[c]]
    /\ UNCHANGED <<ret, varVars, aggVars, ctxVars, updVars, exVars, nxVars, lockVars>>

\* ------------------------------------------------------------------ Aggregation
\* A faulty Aggregate: an armed cell keeps the channel of its first registration.
AggregateKeepArmed(c) ==
    /\ m' = [k \in DOMAIN m \cup {c} |-> IF k \in DOMAIN m THEN m[k] ELSE VarGet(c)[2]]
    /\ ret' = [op |-> "Aggregate", cell |-> c, val |-> VarGet(c)[1], old |-> 0, ok |-> TRUE]
    /\ regGen' = [regGen EXCEPT ![c] = gen[c]]
    /\ firstGen' = [firstGen EXCEPT ![c] = IF c \in DOMAIN m THEN @ ELSE gen[c]]
    /\ chooseCount' = [chooseCount EXCEPT ![c] = 0]
    /\ rearmed' = IF chooseCount[c] >= 1 THEN rearmed \cup {c} ELSE rearmed

\* A faulty Aggregate: an armed cell makes it return early, with the zero value.
AggregateSkipArmed(c) ==
    /\ m' = [k \in DOMAIN m \cup {c} |-> IF k \in DOMAIN m THEN m[k] ELSE VarGet(c)[2]]
    /\ ret' = [op |-> "Aggregate", cell |-> c,
               val |-> IF c \in DOMAIN m THEN 0 ELSE VarGet(c)[1], old |-> 0, ok |-> TRUE]
    /\ regGen' = [regGen EXCEPT ![c] = gen[c]]
    /\ firstGen' = [firstGen EXCEPT ![c] = IF c \in DOMAIN m THEN @ ELSE gen[c]]
    /\ chooseCount' = [chooseCount EXCEPT ![c] = 0]
    /\ rearmed' = IF chooseCount[c] >= 1 THEN rearmed \cup {c} ELSE rearmed

\* A faulty Aggregate: the channel stored is the one the cell was built with.
AggregateFirstChannel(c) ==
    /\ m' = [k \in DOMAIN m \cup {c} |-> IF k = c THEN <<c, 0>> ELSE m[k]]
    /\ ret' = [op |-> "Aggregate", cell |-> c, val |-> VarGet(c)[1], old |-> 0, ok |-> TRUE]
    /\ regGen' = [regGen EXCEPT ![c] = gen[c]]
    /\ firstGen' = [firstGen EXCEPT ![c] = IF c \in DOMAIN m THEN @ ELSE gen[c]]
    /\ chooseCount' = [chooseCount EXCEPT ![c] = 0]
    /\ rearmed' = IF chooseCount[c] >= 1 THEN rearmed \cup {c} ELSE rearmed

\* Aggregate: under the lock, Get the cell and store its channel in the map.
AggregateOp(c) ==
    /\ m' = [k \in DOMAIN m \cup {c} |-> IF k = c THEN VarGet(c)[2] ELSE m[k]]
    /\ ret' = [op |-> "Aggregate", cell |-> c, val |-> VarGet(c)[1], old |-> 0, ok |-> TRUE]
    /\ regGen' = [regGen EXCEPT ![c] = gen[c]]
    /\ firstGen' = [firstGen EXCEPT ![c] = IF c \in DOMAIN m THEN @ ELSE gen[c]]
    /\ chooseCount' = [chooseCount EXCEPT ![c] = 0]
    /\ rearmed' = IF chooseCount[c] >= 1 THEN rearmed \cup {c} ELSE rearmed

\* A faulty Choose: the entry found is returned but not deleted.
ChooseNoDelete ==
    \/ \E k \in DOMAIN m :
          /\ Fired(m[k])
          /\ ret' = [op |-> "Choose", cell |-> k, val |-> 0, old |-> 0, ok |-> TRUE]
          /\ chooseCount' = [chooseCount EXCEPT ![k] = Min(@ + 1, 2)]
          /\ UNCHANGED <<m, regGen, firstGen, rearmed>>
    \/ /\ \A k \in DOMAIN m : ~Fired(m[k])
       /\ ret' = [op |-> "Choose", cell |-> Nil, val |-> 0, old |-> 0, ok |-> FALSE]
       /\ UNCHANGED <<m, regGen, firstGen, chooseCount, rearmed>>

\* A faulty Choose: the first entry of the map is taken, closed channel or not.
ChooseAnyArmed ==
    \/ \E k \in DOMAIN m :
          /\ m' = [j \in DOMAIN m \ {k} |-> m[j]]
          /\ ret' = [op |-> "Choose", cell |-> k, val |-> 0, old |-> 0, ok |-> TRUE]
          /\ regGen' = [regGen EXCEPT ![k] = 0]
          /\ firstGen' = [firstGen EXCEPT ![k] = 0]
          /\ chooseCount' = [chooseCount EXCEPT ![k] = Min(@ + 1, 2)]
          /\ rearmed' = rearmed \ {k}
    \/ /\ DOMAIN m = {}
       /\ ret' = [op |-> "Choose", cell |-> Nil, val |-> 0, old |-> 0, ok |-> FALSE]
       /\ UNCHANGED <<m, regGen, firstGen, chooseCount, rearmed>>

\* A faulty Choose: the loop returns (nil, false) at the first open channel.
ChooseGivesUp ==
    \/ \E k \in DOMAIN m :
          /\ Fired(m[k])
          /\ m' = [j \in DOMAIN m \ {k} |-> m[j]]
          /\ ret' = [op |-> "Choose", cell |-> k, val |-> 0, old |-> 0, ok |-> TRUE]
          /\ regGen' = [regGen EXCEPT ![k] = 0]
          /\ firstGen' = [firstGen EXCEPT ![k] = 0]
          /\ chooseCount' = [chooseCount EXCEPT ![k] = Min(@ + 1, 2)]
          /\ rearmed' = rearmed \ {k}
    \/ /\ \E k \in DOMAIN m : ~Fired(m[k])
       /\ ret' = [op |-> "Choose", cell |-> Nil, val |-> 0, old |-> 0, ok |-> FALSE]
       /\ UNCHANGED <<m, regGen, firstGen, chooseCount, rearmed>>
    \/ /\ DOMAIN m = {}
       /\ ret' = [op |-> "Choose", cell |-> Nil, val |-> 0, old |-> 0, ok |-> FALSE]
       /\ UNCHANGED <<m, regGen, firstGen, chooseCount, rearmed>>

\* Choose: under the lock, range over the map; the first entry whose channel
\* is closed is deleted and returned. Go's map order is unspecified.
ChooseOp ==
    \/ \E k \in DOMAIN m :
          /\ Fired(m[k])
          /\ m' = [j \in DOMAIN m \ {k} |-> m[j]]
          /\ ret' = [op |-> "Choose", cell |-> k, val |-> 0, old |-> 0, ok |-> TRUE]
          /\ regGen' = [regGen EXCEPT ![k] = 0]
          /\ firstGen' = [firstGen EXCEPT ![k] = 0]
          /\ chooseCount' = [chooseCount EXCEPT ![k] = Min(@ + 1, 2)]
          /\ rearmed' = rearmed \ {k}
    \/ /\ \A k \in DOMAIN m : ~Fired(m[k])
       /\ ret' = [op |-> "Choose", cell |-> Nil, val |-> 0, old |-> 0, ok |-> FALSE]
       /\ UNCHANGED <<m, regGen, firstGen, chooseCount, rearmed>>

\* Len: the number of entries of the map.
AggLen == Cardinality(DOMAIN m)

Aggregate(c) ==
    /\ AggregateOp(c)
    /\ UNCHANGED <<varVars, obs, ctxVars, updVars, exVars, nxVars, lockVars>>

Choose ==
    /\ ChooseOp
    /\ UNCHANGED <<varVars, obs, ctxVars, updVars, exVars, nxVars, lockVars>>

\* context cancellation: ctx.Done() is closed, once.
Cancel ==
    /\ ~cancelled
    /\ cancelled' = TRUE
    /\ UNCHANGED <<varVars, obsVars, aggVars, updVars, exVars, nxVars, lockVars>>

\* ------------------------------------------------------------------ Updated
\* Updated, first part: under the read lock, collect the map's channels.
UpdatedSnapshotOp(u) ==
    /\ upc[u] = "idle"
    /\ \E o \in Orders(DOMAIN m) :
          /\ toWatch' = [toWatch EXCEPT ![u] = [i \in DOMAIN o |-> m[o[i]]]]
          /\ snapFired' = [snapFired EXCEPT ![u] = \E k \in DOMAIN m : Fired(m[k])]
    /\ snapCancelled' = [snapCancelled EXCEPT ![u] = cancelled]
    /\ upc' = [upc EXCEPT ![u] = "scan"]
    /\ idx' = [idx EXCEPT ![u] = 1]
    /\ uret' = [uret EXCEPT ![u] = "open"]
    /\ waiter' = [waiter EXCEPT ![u] = "none"]

\* A faulty scan: the loop ends at the first channel that is still open.
UpdatedScanFirstOnly(u) ==
    /\ upc[u] = "scan"
    /\ idx[u] <= Len(toWatch[u])
    /\ IF Fired(toWatch[u][idx[u]])
       THEN /\ uret' = [uret EXCEPT ![u] = "closed"]
            /\ upc' = [upc EXCEPT ![u] = "returned"]
            /\ UNCHANGED idx
       ELSE /\ idx' = [idx EXCEPT ![u] = Len(toWatch[u]) + 1]
            /\ UNCHANGED <<uret, upc>>
    /\ UNCHANGED <<toWatch, waiter, snapFired, snapCancelled>>

\* A faulty scan: a closed channel makes Updated return ret without closing it.
UpdatedScanNoClose(u) ==
    /\ upc[u] = "scan"
    /\ idx[u] <= Len(toWatch[u])
    /\ IF Fired(toWatch[u][idx[u]])
       THEN /\ upc' = [upc EXCEPT ![u] = "returned"]
            /\ UNCHANGED <<idx, uret>>
       ELSE /\ idx' = [idx EXCEPT ![u] = @ + 1]
            /\ UNCHANGED <<uret, upc>>
    /\ UNCHANGED <<toWatch, waiter, snapFired, snapCancelled>>

\* A faulty scan: ret is closed at a closed channel but the loop goes on.
UpdatedScanNoReturn(u) ==
    /\ upc[u] = "scan"
    /\ idx[u] <= Len(toWatch[u])
    /\ IF Fired(toWatch[u][idx[u]])
       THEN uret' = [uret EXCEPT ![u] = "closed"]
       ELSE UNCHANGED uret
    /\ idx' = [idx EXCEPT ![u] = @ + 1]
    /\ UNCHANGED <<upc, toWatch, waiter, snapFired, snapCancelled>>

\* Updated, the loop over toWatch: a closed channel closes ret and returns.
UpdatedScanOp(u) ==
    /\ upc[u] = "scan"
    /\ idx[u] <= Len(toWatch[u])
    /\ IF Fired(toWatch[u][idx[u]])
       THEN /\ uret' = [uret EXCEPT ![u] = "closed"]
            /\ upc' = [upc EXCEPT ![u] = "returned"]
            /\ UNCHANGED idx
       ELSE /\ idx' = [idx EXCEPT ![u] = @ + 1]
            /\ UNCHANGED <<uret, upc>>
    /\ UNCHANGED <<toWatch, waiter, snapFired, snapCancelled>>

\* A variant of the end of Updated: a cancelled context closes ret at once.
UpdatedSpawnChecksCtx(u) ==
    /\ upc[u] = "scan"
    /\ idx[u] > Len(toWatch[u])
    /\ IF cancelled
       THEN /\ uret' = [uret EXCEPT ![u] = "closed"]
            /\ UNCHANGED waiter
       ELSE /\ waiter' = [waiter EXCEPT ![u] = "running"]
            /\ UNCHANGED uret
    /\ upc' = [upc EXCEPT ![u] = "returned"]
    /\ UNCHANGED <<toWatch, idx, snapFired, snapCancelled>>

\* Updated, after the loop: start the goroutine and return ret.
UpdatedSpawnOp(u) ==
    /\ upc[u] = "scan"
    /\ idx[u] > Len(toWatch[u])
    /\ waiter' = [waiter EXCEPT ![u] = "running"]
    /\ upc' = [upc EXCEPT ![u] = "returned"]
    /\ UNCHANGED <<toWatch, idx, uret, snapFired, snapCancelled>>

\* A faulty select: only ctx.Done() is among the cases.
SelectReadyCtxOnly(u) == cancelled

\* A faulty select: the cases are the registry's channels at the time of the wait.
SelectReadyLive(u) ==
    \/ cancelled
    \/ \E k \in DOMAIN m : Fired(m[k])

\* reflect.Select(cases) can return: ctx.Done() or a watched channel is closed.
SelectReady(u) ==
    \/ cancelled
    \/ \E i \in DOMAIN toWatch[u] : Fired(toWatch[u][i])

\* A faulty goroutine: ret is closed without waiting for the select.
UpdatedWaiterEager(u) ==
    /\ waiter[u] = "running"
    /\ uret' = [uret EXCEPT ![u] = "closed"]
    /\ waiter' = [waiter EXCEPT ![u] = "done"]
    /\ UNCHANGED <<upc, toWatch, idx, snapFired, snapCancelled>>

\* The goroutine: reflect.Select returns, the deferred close(ret) runs.
UpdatedWaiterOp(u) ==
    /\ waiter[u] = "running"
    /\ SelectReady(u)
    /\ uret' = [uret EXCEPT ![u] = "closed"]
    /\ waiter' = [waiter EXCEPT ![u] = "done"]
    /\ UNCHANGED <<upc, toWatch, idx, snapFired, snapCancelled>>

\* The caller receives from the closed channel and drops it.
ReceiveOp(u) ==
    /\ upc[u] = "returned"
    /\ uret[u] = "closed"
    /\ upc' = [upc EXCEPT ![u] = "idle"]
    /\ toWatch' = [toWatch EXCEPT ![u] = <<>>]
    /\ idx' = [idx EXCEPT ![u] = 1]
    /\ uret' = [uret EXCEPT ![u] = "open"]
    /\ waiter' = [waiter EXCEPT ![u] = "none"]
    /\ snapFired' = [snapFired EXCEPT ![u] = FALSE]
    /\ snapCancelled' = [snapCancelled EXCEPT ![u] = FALSE]

UpdatedSnapshot(u) ==
    /\ UpdatedSnapshotOp(u)
    /\ UNCHANGED <<varVars, obsVars, aggVars, ctxVars, exVars, nxVars, lockVars>>

UpdatedScan(u) ==
    /\ UpdatedScanOp(u)
    /\ UNCHANGED <<varVars, obsVars, aggVars, ctxVars, exVars, nxVars, lockVars>>

UpdatedSpawn(u) ==
    /\ UpdatedSpawnOp(u)
    /\ UNCHANGED <<varVars, obsVars, aggVars, ctxVars, exVars, nxVars, lockVars>>

UpdatedWaiter(u) ==
    /\ UpdatedWaiterOp(u)
    /\ UNCHANGED <<varVars, obsVars, aggVars, ctxVars, exVars, nxVars, lockVars>>

Receive(u) ==
    /\ ReceiveOp(u)
    /\ UNCHANGED <<varVars, obsVars, aggVars, ctxVars, exVars, nxVars, lockVars>>

\* ------------------------------------------------------------------ ExampleAggregation
\* The next cell of the registration loops, the int cells and then the string
\* cells: the first without a goroutine.
NextToRegister == CHOOSE c \in AllCells : setter[c] = "none" /\ \A d \in 1..(c - 1) : setter[d] # "none"

\* sampled := Aggregate(agg, v); go v.Set(...)
ExRegister ==
    /\ mainPc = "register"
    /\ LET c == NextToRegister IN
          /\ AggregateOp(c)
          /\ sampled' = [sampled EXCEPT ![c] = VarGet(c)[1]]
          /\ setter' = [setter EXCEPT ![c] = "ready"]
          /\ mainPc' = IF c = 2 * NumCells THEN "len" ELSE "register"
    /\ UNCHANGED <<varVars, obs, ctxVars, updVars, seen, nxVars, lockVars>>

\* The goroutine started for a cell: intVar.Set(10 * sampled) or
\* stringVar.Set(sampled + " Updated"). It ends with the process.
ExSet(c) ==
    /\ mainPc # "panic"
    /\ setter[c] = "ready"
    /\ VarSet(c, IF c \in Cells THEN 10 * sampled[c] ELSE sampled[c] \o StrUpdated)
    /\ setter' = [setter EXCEPT ![c] = "done"]
    /\ UNCHANGED <<obsVars, aggVars, ctxVars, updVars, mainPc, sampled, seen, nxVars, lockVars>>

\* for agg.Len() > 0
ExLen ==
    /\ mainPc = "len"
    /\ mainPc' = IF AggLen > 0 THEN "updated" ELSE "sort"
    /\ UNCHANGED <<varVars, obsVars, aggVars, ctxVars, updVars, setter, sampled, seen, nxVars, lockVars>>

\* agg.Updated(ctx), up to the snapshot; the scan and the goroutine follow.
\* The channel of the iteration before is dropped.
ExUpdated ==
    /\ mainPc = "updated"
    /\ UpdatedSnapshotOp(1)
    /\ mainPc' = "select"
    /\ UNCHANGED <<varVars, obsVars, aggVars, ctxVars, setter, sampled, seen, nxVars, lockVars>>

\* The select, once Updated has returned its channel: "case
\* <-agg.Updated(ctx)" when the channel is closed, "case <-ctx.Done():
\* panic(ctx.Err())" when ctx is done; a ready case is chosen at random.
ExSelect ==
    /\ mainPc = "select"
    /\ upc[1] = "returned"
    /\ \/ /\ ReceiveOp(1)
          /\ mainPc' = "choose"
       \/ /\ cancelled
          /\ mainPc' = "panic"
          /\ UNCHANGED updVars
    /\ UNCHANGED <<varVars, obsVars, aggVars, ctxVars, setter, sampled, seen, nxVars, lockVars>>

\* found, ok := agg.Choose(); if !ok { continue }. The registry lock is
\* released when Choose returns; found and ok are kept in ret.
ExChoose ==
    /\ mainPc = "choose"
    /\ ChooseOp
    /\ mainPc' = IF ret'.ok THEN "get" ELSE "len"
    /\ UNCHANGED <<varVars, obs, ctxVars, updVars, setter, sampled, seen, nxVars, lockVars>>

\* The type switch on found: val, _ := t.Get() and seen = append(seen,
\* strconv.Itoa(val)) or append(seen, val). The other goroutines may have
\* run since Choose returned.
ExGet ==
    /\ mainPc = "get"
    /\ seen' = Append(seen, IF ret.cell \in Cells
                            THEN Itoa(VarGet(ret.cell)[1])
                            ELSE VarGet(ret.cell)[1])
    /\ mainPc' = "len"
    /\ UNCHANGED <<varVars, obsVars, aggVars, ctxVars, updVars, setter, sampled, nxVars, lockVars>>

\* slices.Sort(seen); fmt.Println(seen)
ExSort ==
    /\ mainPc = "sort"
    /\ seen' = SortStrings(seen)
    /\ mainPc' = "done"
    /\ UNCHANGED <<varVars, obsVars, aggVars, ctxVars, updVars, setter, sampled, nxVars, lockVars>>

\* The goroutine of the example's Updated call; it ends with the process.
ExWaiter ==
    /\ mainPc # "panic"
    /\ UpdatedWaiter(1)

\* ctx times out, or the deferred cancel runs when the example returns.
ExCancel ==
    /\ mainPc # "panic"
    /\ Cancel

\* The line the example prints: [10 20 X 1 Updated X 2 Updated].
ExOutput ==
    [i \in 1..(2 * NumCells) |->
        IF i \in Cells THEN Itoa(10 * InitialValue(i)) ELSE InitialValue(i) \o StrUpdated]

\* ------------------------------------------------------------------ notifyx
\* The combinators of package notifyx, run by one caller against the source
\* cell Src and a stopper.Context whose Stopping() channel is modelled by
\* stopping and whose Done() channel by cancelled. The two channels are closed
\* independently (Stop, Cancel): the code selects on each of them separately.
Combinators ==
    {"WaitForChange", "WaitForChangeOrDuration", "WaitForValue",
     "DoWhenChanged", "DoWhenChangedOrInterval"}

Src == 1

\* The wait a combinator executes: the Do loops call WaitForChange and
\* WaitForChangeOrDuration with current = last.
Waiting(f) ==
    IF f = "DoWhenChanged" THEN "WaitForChange"
    ELSE IF f = "DoWhenChangedOrInterval" THEN "WaitForChangeOrDuration"
    ELSE f

IsLoop(f) == f \in {"DoWhenChanged", "DoWhenChangedOrInterval"}

\* What the caller learns from the returned values alone: whether a wait
\* returned the current argument, or whether the error is nil.
Visible(f, cur, v, e) ==
    IF f \in {"WaitForChange", "WaitForChangeOrDuration"}
    THEN (IF v = cur THEN "current" ELSE "other")
    ELSE (IF e = "nil" THEN "nil" ELSE "error")

\* Why a call returned: the awaited condition, cancellation, or the callback.
Class(reason) ==
    IF reason \in {"changed", "timer", "found"} THEN "satisfied"
    ELSE IF reason \in {"stopping", "done"} THEN "abandoned"
    ELSE "failed"

\* What the last returned call reported and why it returned.
Outcome == <<nx.fn, Visible(nx.fn, nx.arg, nx.rv, nx.err), Class(nx.why)>>

\* The combinator returns v (with the channel ch, if it returns one) and e to
\* its caller.
NxReturn(v, ch, e, reason) ==
    /\ nx' = [nx EXCEPT !.pc = "returned", !.rv = v, !.err = e, !.why = reason,
                        !.nxt = IF IsLoop(nx.fn) THEN nx.nxt ELSE v,
                        !.chg = ch, !.timer = "off"]
    /\ UNCHANGED prev

\* WaitForChange or WaitForChangeOrDuration returns next = v and changed = ch
\* ("defer timer.Stop()" included), to the Do loop if one is running.
WaitReturn(v, ch, reason) ==
    IF IsLoop(nx.fn)
    THEN /\ nx' = [nx EXCEPT !.pc = "check", !.nxt = v, !.chg = ch, !.why = reason,
                             !.timer = "off"]
         /\ UNCHANGED prev
    ELSE NxReturn(v, ch, "nil", reason)

\* A call begins; the Do loops set last = start and enter their first wait,
\* WaitForChangeOrDuration creates its timer.
NxCallOp(f, a) ==
    /\ nx.pc \in {"idle", "returned"}
    /\ nx' = [fn |-> f, pc |-> "get", arg |-> a, cur |-> a, nxt |-> Nil, chg |-> NoCh,
              timer |-> IF Waiting(f) = "WaitForChangeOrDuration" THEN "armed" ELSE "off",
              last |-> IF IsLoop(f) THEN a ELSE Nil,
              rv |-> Nil, err |-> "nil", why |-> "none"]
    /\ lastOk' = IF IsLoop(f) THEN a ELSE Nil
    /\ cb' = [fn |-> "none", old |-> Nil, new |-> Nil, err |-> "nil"]
    /\ prev' = IF nx.pc = "returned" THEN Outcome ELSE prev

\* "next, changed = source.Get(); if current != next { return next, changed }"
WaitForChangeGetOp ==
    /\ nx.pc = "get"
    /\ Waiting(nx.fn) \in {"WaitForChange", "WaitForChangeOrDuration"}
    /\ IF nx.cur # VarGet(Src)[1]
       THEN WaitReturn(VarGet(Src)[1], VarGet(Src)[2], "changed")
       ELSE /\ nx' = [nx EXCEPT !.pc = "select", !.nxt = VarGet(Src)[1], !.chg = VarGet(Src)[2]]
            /\ UNCHANGED prev
    /\ UNCHANGED <<lastOk, cb>>

\* WaitForChange's select: "case <-changed: continue" or
\* "case <-ctx.Stopping(): return current, changed"; a ready case is chosen
\* at random.
WaitForChangeSelectOp ==
    /\ nx.pc = "select"
    /\ Waiting(nx.fn) = "WaitForChange"
    /\ \/ /\ Fired(nx.chg)
          /\ nx' = [nx EXCEPT !.pc = "get"]
          /\ UNCHANGED prev
       \/ /\ stopping
          /\ WaitReturn(nx.cur, nx.chg, "stopping")
    /\ UNCHANGED <<lastOk, cb>>

\* WaitForChangeOrDuration's select: as WaitForChange's, with
\* "case <-timer.C: return current, changed".
WaitForChangeOrDurationSelectOp ==
    /\ nx.pc = "select"
    /\ Waiting(nx.fn) = "WaitForChangeOrDuration"
    /\ \/ /\ Fired(nx.chg)
          /\ nx' = [nx EXCEPT !.pc = "get"]
          /\ UNCHANGED prev
       \/ /\ nx.timer = "fired"
          /\ WaitReturn(nx.cur, nx.chg, "timer")
       \/ /\ stopping
          /\ WaitReturn(nx.cur, nx.chg, "stopping")
    /\ UNCHANGED <<lastOk, cb>>

\* The duration elapses: timer.C becomes ready.
TimerFireOp ==
    /\ nx.timer = "armed"
    /\ nx' = [nx EXCEPT !.timer = "fired"]
    /\ UNCHANGED <<lastOk, cb, prev>>

\* "found, changed := source.Get(); if found == expected { return nil }"
WaitForValueGetOp ==
    /\ nx.pc = "get"
    /\ nx.fn = "WaitForValue"
    /\ IF VarGet(Src)[1] = nx.cur
       THEN NxReturn(VarGet(Src)[1], nx.chg, "nil", "found")
       ELSE /\ nx' = [nx EXCEPT !.pc = "select", !.nxt = VarGet(Src)[1], !.chg = VarGet(Src)[2]]
            /\ UNCHANGED prev
    /\ UNCHANGED <<lastOk, cb>>

\* A faulty WaitForValue: a stopping context ends the wait without an error.
WaitForValueSelectNilOnStop ==
    /\ nx.pc = "select"
    /\ nx.fn = "WaitForValue"
    /\ \/ /\ Fired(nx.chg)
          /\ nx' = [nx EXCEPT !.pc = "get"]
          /\ UNCHANGED prev
       \/ /\ stopping
          /\ NxReturn(nx.nxt, nx.chg, "nil", "stopping")
       \/ /\ cancelled
          /\ NxReturn(nx.nxt, nx.chg, "done", "done")
    /\ UNCHANGED <<lastOk, cb>>

\* WaitForValue's select: "case <-changed: continue", "case <-ctx.Stopping():
\* return fmt.Errorf(...)" or "case <-ctx.Done(): return ctx.Err()".
WaitForValueSelectOp ==
    /\ nx.pc = "select"
    /\ nx.fn = "WaitForValue"
    /\ \/ /\ Fired(nx.chg)
          /\ nx' = [nx EXCEPT !.pc = "get"]
          /\ UNCHANGED prev
       \/ /\ stopping
          /\ NxReturn(nx.nxt, nx.chg, "stopping", "stopping")
       \/ /\ cancelled
          /\ NxReturn(nx.nxt, nx.chg, "done", "done")
    /\ UNCHANGED <<lastOk, cb>>

\* A faulty DoWhenChanged: the callback runs without asking ctx.IsStopping().
DoWhenChangedNoStopCheck ==
    /\ nx.pc = "check"
    /\ nx.fn = "DoWhenChanged"
    /\ nx' = [nx EXCEPT !.pc = "call"]
    /\ UNCHANGED <<lastOk, cb, prev>>

\* DoWhenChanged after WaitForChange has returned: "if ctx.IsStopping()
\* { return last, nil }"; otherwise the callback is invoked next, and ctx may
\* be stopped before it is.
DoWhenChangedIsStoppingOp ==
    /\ nx.pc = "check"
    /\ nx.fn = "DoWhenChanged"
    /\ IF stopping
       THEN NxReturn(nx.last, nx.chg, "nil", "stopping")
       ELSE /\ nx' = [nx EXCEPT !.pc = "call"]
            /\ UNCHANGED prev
    /\ UNCHANGED <<lastOk, cb>>

\* A faulty DoWhenChanged: last is advanced before the callback's error is tested.
DoWhenChangedAdvanceOnError(e) ==
    /\ nx.pc = "call"
    /\ nx.fn = "DoWhenChanged"
    /\ cb' = [fn |-> nx.fn, old |-> nx.last, new |-> nx.nxt, err |-> e]
    /\ IF e = "nil"
       THEN /\ nx' = [nx EXCEPT !.pc = "get", !.last = nx.nxt, !.cur = nx.nxt]
            /\ lastOk' = nx.nxt
            /\ UNCHANGED prev
       ELSE /\ NxReturn(nx.nxt, nx.chg, e, "error")
            /\ UNCHANGED lastOk

\* DoWhenChanged's callback fn(ctx, last, next), which returns e: on an error
\* "return last, err", otherwise "last = next" and the next wait. The callback
\* is the caller's code and reads only its arguments: what the other
\* goroutines do while it runs is what they do before this step.
DoWhenChangedOp(e) ==
    /\ nx.pc = "call"
    /\ nx.fn = "DoWhenChanged"
    /\ cb' = [fn |-> nx.fn, old |-> nx.last, new |-> nx.nxt, err |-> e]
    /\ IF e = "nil"
       THEN /\ nx' = [nx EXCEPT !.pc = "get", !.last = nx.nxt, !.cur = nx.nxt]
            /\ lastOk' = nx.nxt
            /\ UNCHANGED prev
       ELSE /\ NxReturn(nx.last, nx.chg, e, "error")
            /\ UNCHANGED lastOk

\* DoWhenChangedOrInterval after WaitForChangeOrDuration has returned: the
\* same test of ctx.IsStopping().
DoWhenChangedOrIntervalIsStoppingOp ==
    /\ nx.pc = "check"
    /\ nx.fn = "DoWhenChangedOrInterval"
    /\ IF stopping
       THEN NxReturn(nx.last, nx.chg, "nil", "stopping")
       ELSE /\ nx' = [nx EXCEPT !.pc = "call"]
            /\ UNCHANGED prev
    /\ UNCHANGED <<lastOk, cb>>

\* DoWhenChangedOrInterval's callback: as DoWhenChanged's, around
\* WaitForChangeOrDuration, whose timer is created anew by every call.
DoWhenChangedOrIntervalOp(e) ==
    /\ nx.pc = "call"
    /\ nx.fn = "DoWhenChangedOrInterval"
    /\ cb' = [fn |-> nx.fn, old |-> nx.last, new |-> nx.nxt, err |-> e]
    /\ IF e = "nil"
       THEN /\ nx' = [nx EXCEPT !.pc = "get", !.last = nx.nxt, !.cur = nx.nxt,
                                !.timer = "armed"]
            /\ lastOk' = nx.nxt
            /\ UNCHANGED prev
       ELSE /\ NxReturn(nx.last, nx.chg, e, "error")
            /\ UNCHANGED lastOk

\* What the callback may return.
CallbackResults == {"nil", "callback"}

NxCall(f, a) ==
    /\ NxCallOp(f, a)
    /\ UNCHANGED <<varVars, obsVars, aggVars, ctxVars, updVars, exVars, stopping, lockVars>>

WaitForChangeGet ==
    /\ WaitForChangeGetOp
    /\ UNCHANGED <<varVars, obsVars, aggVars, ctxVars, updVars, exVars, stopping, lockVars>>

WaitForChangeSelect ==
    /\ WaitForChangeSelectOp
    /\ UNCHANGED <<varVars, obsVars, aggVars, ctxVars, updVars, exVars, stopping, lockVars>>

WaitForChangeOrDurationSelect ==
    /\ WaitForChangeOrDurationSelectOp
    /\ UNCHANGED <<varVars, obsVars, aggVars, ctxVars, updVars, exVars, stopping, lockVars>>

TimerFire ==
    /\ TimerFireOp
    /\ UNCHANGED <<varVars, obsVars, aggVars, ctxVars, updVars, exVars, stopping, lockVars>>

WaitForValueGet ==
    /\ WaitForValueGetOp
    /\ UNCHANGED <<varVars, obsVars, aggVars, ctxVars, updVars, exVars, stopping, lockVars>>

WaitForValueSelect ==
    /\ WaitForValueSelectOp
    /\ UNCHANGED <<varVars, obsVars, aggVars, ctxVars, updVars, exVars, stopping, lockVars>>

DoWhenChangedIsStopping ==
    /\ DoWhenChangedIsStoppingOp
    /\ UNCHANGED <<varVars, obsVars, aggVars, ctxVars, updVars, exVars, stopping, lockVars>>

DoWhenChangedOrIntervalIsStopping ==
    /\ DoWhenChangedOrIntervalIsStoppingOp
    /\ UNCHANGED <<varVars, obsVars, aggVars, ctxVars, updVars, exVars, stopping, lockVars>>

DoWhenChanged(e) ==
    /\ DoWhenChangedOp(e)
    /\ UNCHANGED <<varVars, obsVars, aggVars, ctxVars, updVars, exVars, stopping, lockVars>>

DoWhenChangedOrInterval(e) ==
    /\ DoWhenChangedOrIntervalOp(e)
    /\ UNCHANGED <<varVars, obsVars, aggVars, ctxVars, updVars, exVars, stopping, lockVars>>

\* stopper.Context.Stop: the Stopping() channel is closed.
Stop ==
    /\ ~stopping
    /\ stopping' = TRUE
    /\ UNCHANGED <<varVars, obsVars, aggVars, ctxVars, updVars, exVars, nx, lastOk, cb, prev, lockVars>>

\* ------------------------------------------------------------------ Aggregation.mu
\* The methods of the Aggregation as their callers' threads execute them:
\* the call to Lock or RLock, the critical section and the deferred unlock.
Methods == {"Aggregate", "Choose", "Len", "Updated"}

\* Aggregate and Choose call mu.Lock, Len and Updated call mu.RLock.
Writes(op) == op \in {"Aggregate", "Choose"}

\* A thread blocked in Lock: sync.RWMutex then admits no new reader.
WriterPending == \E s \in Threads : tpc[s] = "lock" /\ Writes(top[s])

\* The threads blocked in RLock: Unlock admits them all before the next writer.
BlockedReaders == {s \in Threads : tpc[s] = "lock" /\ ~Writes(top[s])}

\* A thread calls a method and arrives at its Lock or RLock. The one Updated
\* call of the model is made once.
CallOp(t, op, c) ==
    /\ tpc[t] \in {"idle", "unlocked"}
    /\ op = "Updated" => (upc[1] = "idle" /\ \A s \in Threads : top[s] # "Updated")
    /\ (top[t] = "Updated" /\ tpc[t] = "unlocked") => upc[1] = "returned"
    /\ tpc' = [tpc EXCEPT ![t] = "lock"]
    /\ top' = [top EXCEPT ![t] = op]
    /\ targ' = [targ EXCEPT ![t] = IF op = "Aggregate" THEN c ELSE Nil]
    /\ UNCHANGED <<writer, readers>>

\* Lock returns when nobody holds the lock; RLock returns when no writer holds
\* it or waits for it.
AcquireOp(t) ==
    /\ tpc[t] = "lock"
    /\ IF Writes(top[t])
       THEN /\ writer = Nil
            /\ readers = {}
            /\ writer' = t
            /\ UNCHANGED readers
       ELSE /\ writer = Nil
            /\ ~WriterPending
            /\ readers' = readers \cup {t}
            /\ UNCHANGED writer
    /\ tpc' = [tpc EXCEPT ![t] = "held"]
    /\ UNCHANGED <<top, targ>>

\* A faulty Choose: it waits, holding the lock, until a captured channel is closed.
CriticalSectionBlockingChoose(t) ==
    /\ tpc[t] = "held"
    /\ \/ /\ top[t] = "Aggregate"
          /\ AggregateOp(targ[t])
          /\ UNCHANGED updVars
       \/ /\ top[t] = "Choose"
          /\ \E k \in DOMAIN m : Fired(m[k])
          /\ ChooseOp
          /\ UNCHANGED updVars
       \/ /\ top[t] = "Len"
          /\ ret' = [op |-> "Len", cell |-> Nil, val |-> AggLen, old |-> 0, ok |-> TRUE]
          /\ UNCHANGED <<aggVars, updVars>>
       \/ /\ top[t] = "Updated"
          /\ UpdatedSnapshotOp(1)
          /\ UNCHANGED <<ret, aggVars>>
    /\ writer' = Nil
    /\ readers' = IF writer = t THEN BlockedReaders ELSE readers \ {t}
    /\ tpc' = [s \in Threads |->
                IF s = t THEN "unlocked"
                ELSE IF writer = t /\ s \in BlockedReaders THEN "held"
                ELSE tpc[s]]
    /\ UNCHANGED <<top, targ>>

\* The critical section of the method and its unlock: Aggregate's Get and map
\* store, Choose's loop over the map, Len's len(m), Updated's snapshot of the
\* map's channels. Updated goes on, unlocked, with its scan. Unlock hands the
\* lock to the readers that wait for it.
CriticalSectionOp(t) ==
    /\ tpc[t] = "held"
    /\ \/ /\ top[t] = "Aggregate"
          /\ AggregateOp(targ[t])
          /\ UNCHANGED updVars
       \/ /\ top[t] = "Choose"
          /\ ChooseOp
          /\ UNCHANGED updVars
       \/ /\ top[t] = "Len"
          /\ ret' = [op |-> "Len", cell |-> Nil, val |-> AggLen, old |-> 0, ok |-> TRUE]
          /\ UNCHANGED <<aggVars, updVars>>
       \/ /\ top[t] = "Updated"
          /\ UpdatedSnapshotOp(1)
          /\ UNCHANGED <<ret, aggVars>>
    /\ writer' = Nil
    /\ readers' = IF writer = t THEN BlockedReaders ELSE readers \ {t}
    /\ tpc' = [s \in Threads |->
                IF s = t THEN "unlocked"
                ELSE IF writer = t /\ s \in BlockedReaders THEN "held"
                ELSE tpc[s]]
    /\ UNCHANGED <<top, targ>>

Call(t, op, c) ==
    /\ CallOp(t, op, c)
    /\ UNCHANGED <<varVars, obsVars, aggVars, ctxVars, updVars, exVars, nxVars>>

Acquire(t) ==
    /\ AcquireOp(t)
    /\ UNCHANGED <<varVars, obsVars, aggVars, ctxVars, updVars, exVars, nxVars>>

CriticalSection(t) ==
    /\ CriticalSectionOp(t)
    /\ UNCHANGED <<varVars, obs, ctxVars, exVars, nxVars>>

\* The call of a thread has returned; Updated returns after its scan.
Completed(t) ==
    /\ tpc[t] = "unlocked"
    /\ top[t] = "Updated" => upc[1] = "returned"

\* ------------------------------------------------------------------ specification
Init ==
    /\ value = [c \in AllCells |-> InitialValue(c)]
    /\ signal = [c \in AllCells |-> <<c, 0>>]
    /\ closed = {}
    /\ gen = [c \in AllCells |-> 0]
    /\ ret = [op |-> "none", cell |-> Nil, val |-> 0, old |-> 0, ok |-> FALSE]
    /\ obs = [cell |-> Nil, val |-> 0, sig |-> NoCh, gen |-> 0]
    /\ m = [k \in {} |-> NoCh]
    /\ regGen = [c \in AllCells |-> 0]
    /\ firstGen = [c \in AllCells |-> 0]
    /\ chooseCount = [c \in AllCells |-> 0]
    /\ rearmed = {}
    /\ cancelled = FALSE
    /\ upc = [u \in Calls |-> "idle"]
    /\ toWatch = [u \in Calls |-> <<>>]
    /\ idx = [u \in Calls |-> 1]
    /\ uret = [u \in Calls |-> "open"]
    /\ waiter = [u \in Calls |-> "none"]
    /\ snapFired = [u \in Calls |-> FALSE]
    /\ snapCancelled = [u \in Calls |-> FALSE]
    /\ mainPc = "register"
    /\ setter = [c \in AllCells |-> "none"]
    /\ sampled = [c \in AllCells |-> 0]
    /\ seen = <<>>
    /\ stopping = FALSE
    /\ nx = [fn |-> "none", pc |-> "idle", arg |-> Nil, cur |-> Nil, nxt |-> Nil, chg |-> NoCh,
             timer |-> "off", last |-> Nil, rv |-> Nil, err |-> "nil", why |-> "none"]
    /\ lastOk = Nil
    /\ cb = [fn |-> "none", old |-> Nil, new |-> Nil, err |-> "nil"]
    /\ prev = <<"none", "none", "none">>
    /\ writer = Nil
    /\ readers = {}
    /\ tpc = [t \in Threads |-> "idle"]
    /\ top = [t \in Threads |-> "none"]
    /\ targ = [t \in Threads |-> Nil]

\* The cell alone: concurrent Set, Update and Get.
NextVar ==
    \/ \E c \in Cells, v \in SetValues : Set(c, v)
    \/ \E c \in Cells, t \in Transforms : Update(c, t)
    \/ \E c \in Cells : Get(c)

SpecVar == Init /\ [][NextVar]_vars

\* The Aggregation under concurrent producers, which set a cell to ten times
\* its value as ExampleAggregation does, and a cancellable context.
Next ==
    \/ \E c \in Cells : Set(c, 10 * value[c])
    \/ \E c \in Cells, t \in Transforms : Update(c, t)
    \/ \E c \in Cells : Aggregate(c)
    \/ Choose
    \/ Cancel
    \/ \E u \in Calls : UpdatedSnapshot(u)
    \/ \E u \in Calls : UpdatedScan(u)
    \/ \E u \in Calls : UpdatedSpawn(u)
    \/ \E u \in Calls : UpdatedWaiter(u)
    \/ \E u \in Calls : Receive(u)

Spec == Init /\ [][Next]_vars

\* Fair scheduling of the Updated goroutine: once reflect.Select can return,
\* the goroutine runs.
LiveSpec == Init /\ [][Next]_vars /\ \A u \in Calls : WF_vars(UpdatedWaiter(u))

\* ExampleAggregation: the main goroutine, its setters, the Updated goroutine
\* and the context's timeout.
NextDrain ==
    \/ ExRegister
    \/ \E c \in AllCells : ExSet(c)
    \/ ExLen
    \/ ExUpdated
    \/ UpdatedScan(1)
    \/ UpdatedSpawn(1)
    \/ ExWaiter
    \/ ExSelect
    \/ ExChoose
    \/ ExGet
    \/ ExSort
    \/ ExCancel

\* The steps of the example's main goroutine, of which one at most is enabled.
ExMain ==
    \/ ExRegister
    \/ ExLen
    \/ ExUpdated
    \/ UpdatedScan(1)
    \/ UpdatedSpawn(1)
    \/ ExSelect
    \/ ExChoose
    \/ ExGet
    \/ ExSort

\* Every goroutine that can run does run; each setter runs once, so fairness
\* to the setters together is fairness to each.
DrainSpec ==
    /\ Init
    /\ [][NextDrain]_vars
    /\ WF_vars(ExMain)
    /\ WF_vars(\E c \in AllCells : ExSet(c))
    /\ WF_vars(ExWaiter)

\* The combinators of notifyx, one call after the other, against a source that
\* is Set concurrently and a context that may be stopped and may be cancelled,
\* in either order.
NextNx ==
    \/ \E v \in SetValues : Set(Src, v)
    \/ Stop
    \/ Cancel
    \/ \E f \in Combinators, a \in SetValues : NxCall(f, a)
    \/ WaitForChangeGet
    \/ WaitForChangeSelect
    \/ WaitForChangeOrDurationSelect
    \/ TimerFire
    \/ WaitForValueGet
    \/ WaitForValueSelect
    \/ DoWhenChangedIsStopping
    \/ DoWhenChangedOrIntervalIsStopping
    \/ \E e \in CallbackResults : DoWhenChanged(e)
    \/ \E e \in CallbackResults : DoWhenChangedOrInterval(e)

SpecNx == Init /\ [][NextNx]_vars

\* The Aggregation's methods called from concurrent threads through its
\* RWMutex, with concurrent producers, a cancellable context and the Updated
\* goroutine.
NextLock ==
    \/ \E t \in Threads, op \in Methods : Call(t, op, Src)
    \/ \E t \in Threads : Acquire(t)
    \/ \E t \in Threads : CriticalSection(t)
    \/ UpdatedScan(1)
    \/ UpdatedSpawn(1)
    \/ UpdatedWaiter(1)
    \/ Set(Src, 10 * value[Src])
    \/ Cancel

\* The threads are scheduled fairly and sync.RWMutex starves no caller; no
\* producer and no cancellation is assumed to ever act.
LockSpec ==
    /\ Init
    /\ [][NextLock]_vars
    /\ \A t \in Threads : SF_vars(Acquire(t)) /\ WF_vars(CriticalSection(t))
    /\ WF_vars(UpdatedScan(1)) /\ WF_vars(UpdatedSpawn(1))

\* ------------------------------------------------------------------ properties
\* A channel of the snapshot taken by call u is closed.
SnapshotFired(u) == \E i \in DOMAIN toWatch[u] : Fired(toWatch[u][i])

\* C1: the pair a Get returned is of one generation: its channel is closed
\* iff a Set or successful Update took effect on the cell after the Get, and
\* while the cell is still in that generation the pair is the cell's own.
C1_SnapshotAtomicity ==
    obs.cell # Nil =>
        /\ Fired(obs.sig) <=> gen[obs.cell] > obs.gen
        /\ gen[obs.cell] = obs.gen => (obs.val = value[obs.cell] /\ obs.sig = signal[obs.cell])

\* A Get taken after a first change, whose channel a later change has closed.
C1_Witness ==
    /\ obs.cell # Nil
    /\ obs.gen >= 1
    /\ gen[obs.cell] > obs.gen
    /\ Fired(obs.sig)

\* C2: unless its context is cancelled, the loop of ExampleAggregation ends,
\* having obtained every cell exactly once from Choose, with Len at 0: the
\* example prints the new value of every cell, once, in sorted order.
C2_NoMissedWakeup ==
    <>(\/ /\ mainPc = "done"
          /\ seen = ExOutput
          /\ AggLen = 0
       \/ cancelled)

\* The loop has ended with every cell drained and every setter run, while
\* the context is live.
C2_Witness ==
    /\ mainPc = "done"
    /\ seen = ExOutput
    /\ AggLen = 0
    /\ ~cancelled
    /\ \A c \in AllCells : setter[c] = "done"

\* C3 as stated: an armed cell keeps the channel of its first registration,
\* so a change made since then is reported by Choose, once.
C3_Original ==
    /\ \A c \in DOMAIN m : gen[c] > firstGen[c] => Fired(m[c])
    /\ \A c \in Cells : chooseCount[c] <= 1

\* C3 amended: Aggregate on an armed cell captures the cell's channel anew:
\* the registration is fired iff the cell changed after the last Aggregate
\* on it, and a cell is reported by Choose at most once per Aggregate.
C3_Amended ==
    /\ \A c \in DOMAIN m : Fired(m[c]) <=> gen[c] > regGen[c]
    /\ \A c \in Cells : chooseCount[c] <= 1

\* A cell registered, Set, and registered again: armed and not fired.
C3_Witness ==
    \E c \in DOMAIN m : regGen[c] > firstGen[c] /\ gen[c] = regGen[c] /\ ~Fired(m[c])

\* C4: a Choose that returns a cell lowers Len by one, removes the cell, and
\* is the only one to return it since the last Aggregate on it.
C4_ConsumeOnce ==
    [][(Choose /\ ret'.ok) =>
          /\ AggLen' = AggLen - 1
          /\ ret'.cell \notin DOMAIN m'
          /\ chooseCount'[ret'.cell] = 1]_vars

\* Choose returned a cell out of two registered; the cell changed again
\* later and stays out of the registry.
C4_Witness ==
    /\ ret.op = "Choose" /\ ret.ok
    /\ ret.cell \notin DOMAIN m
    /\ AggLen = NumCells - 1
    /\ gen[ret.cell] = MaxGen

\* C5: Choose returns a cell only if it is registered and changed since the
\* last Aggregate on it, and returns (nil, false) when no registered cell has.
C5_RealChanges ==
    [][Choose =>
          /\ ret'.ok => (ret'.cell \in DOMAIN m /\ gen[ret'.cell] > regGen[ret'.cell])
          /\ (\A c \in DOMAIN m : gen[c] = regGen[c]) => (~ret'.ok /\ ret'.cell = Nil)]_vars

\* Choose found nothing although a registered cell had changed before its
\* last Aggregate.
C5_Witness ==
    /\ ret.op = "Choose" /\ ~ret.ok /\ ret.cell = Nil
    /\ \E c \in DOMAIN m : gen[c] >= 1 /\ gen[c] = regGen[c]

\* C6: a snapshot holding a closed channel makes Updated return a closed
\* channel with no goroutine started.
C6_SyncResolve ==
    \A u \in Calls :
        (upc[u] = "returned" /\ snapFired[u]) => (uret[u] = "closed" /\ waiter[u] = "none")

\* Updated returned after passing an open channel before the closed one.
C6_Witness ==
    \E u \in Calls :
        /\ upc[u] = "returned" /\ snapFired[u]
        /\ Len(toWatch[u]) = NumCells
        /\ ~Fired(toWatch[u][1])

\* C7 as stated: with the context cancelled at call time and no channel of
\* the snapshot closed, Updated returns a closed channel, no goroutine started.
C7_Original ==
    \A u \in Calls :
        (upc[u] = "returned" /\ snapCancelled[u] /\ ~snapFired[u]) =>
            (uret[u] = "closed" /\ waiter[u] = "none")

\* C7 amended: with the context cancelled at call time and no channel of the
\* snapshot closed at that time, the cancellation does not make Updated close
\* the channel: Updated closes it itself, starting no goroutine, only if a
\* channel of the snapshot was closed while it ran; otherwise it starts the
\* goroutine and returns the channel open, the goroutine's select is ready
\* and the goroutine closes the channel.
C7_Amended ==
    \A u \in Calls :
        (upc[u] = "returned" /\ snapCancelled[u] /\ ~snapFired[u]) =>
            /\ waiter[u] = "none" => (uret[u] = "closed" /\ SnapshotFired(u))
            /\ waiter[u] = "running" => (uret[u] = "open" /\ cancelled /\ SelectReady(u))
            /\ waiter[u] = "done" => uret[u] = "closed"

\* Updated returned an open channel under a context cancelled before the
\* call, with no channel of its snapshot closed before or since.
C7_Witness ==
    \E u \in Calls :
        /\ upc[u] = "returned" /\ snapCancelled[u] /\ ~snapFired[u] /\ ~SnapshotFired(u)
        /\ Len(toWatch[u]) >= 1
        /\ waiter[u] = "running" /\ uret[u] = "open"

\* C8: once a channel of the snapshot is closed or the context cancelled,
\* the channel Updated returned is eventually closed.
C8_UpdatedLive ==
    \A u \in Calls :
        (upc[u] = "returned" /\ (cancelled \/ SnapshotFired(u))) ~> (uret[u] = "closed")

\* The goroutine closed the channel because a watched cell changed.
C8_Witness ==
    \E u \in Calls :
        /\ waiter[u] = "done" /\ uret[u] = "closed"
        /\ ~cancelled /\ SnapshotFired(u)

\* C9: the channel Updated returned is closed only if a channel of its
\* snapshot is closed or the context is cancelled, and Choose returns no
\* cell that never changed.
C9_NoSpurious ==
    /\ \A u \in Calls : uret[u] = "closed" => (cancelled \/ SnapshotFired(u))
    /\ (ret.op = "Choose" /\ ret.ok) => gen[ret.cell] >= 1

\* Every cell registered and unchanged: the channel is open after Updated
\* returned and Choose has returned nothing.
C9_Witness ==
    \E u \in Calls :
        /\ upc[u] = "returned" /\ uret[u] = "open"
        /\ Len(toWatch[u]) = NumCells
        /\ \A c \in Cells : gen[c] = 0
        /\ ~cancelled
        /\ ret.op = "Choose" /\ ~ret.ok

\* C10: a change of a cell registered after the snapshot, with no channel of
\* the snapshot closed and the context not cancelled, leaves the channel
\* open and the goroutine waiting.
C10_SnapshotOnly ==
    \A u \in Calls : \A c \in DOMAIN m :
        (/\ upc[u] = "returned"
         /\ m[c] \notin Range(toWatch[u])
         /\ Fired(m[c])
         /\ ~cancelled
         /\ ~SnapshotFired(u)) =>
            (uret[u] = "open" /\ waiter[u] = "running")

\* A cell registered after Updated returned has changed; the snapshot's
\* cell is still registered and unchanged.
C10_Witness ==
    \E u \in Calls : \E c \in DOMAIN m :
        /\ upc[u] = "returned" /\ uret[u] = "open"
        /\ Len(toWatch[u]) >= 1
        /\ m[c] \notin Range(toWatch[u])
        /\ Fired(m[c])
        /\ ~cancelled
        /\ ~SnapshotFired(u)

\* The registered cells that changed since the last Aggregate on them.
ChangedSinceAggregate == {c \in DOMAIN m : gen[c] > regGen[c]}

\* C11: a call has at most one goroutine; ret is closed at most once, by the
\* scan or by the goroutine, never by both; the goroutine ends with its
\* close; and a goroutine still waiting when ctx is cancelled ends.
C11_WaiterLifecycle ==
    /\ [](\A u \in Calls :
            /\ waiter[u] = "running" => (uret[u] = "open" /\ upc[u] = "returned")
            /\ waiter[u] = "done" => uret[u] = "closed")
    /\ [][\A u \in Calls :
            /\ (UpdatedScan(u) \/ UpdatedWaiter(u)) /\ uret'[u] = "closed" => uret[u] = "open"
            /\ UpdatedSpawn(u) => waiter[u] = "none"]_vars
    /\ \A u \in Calls : (waiter[u] = "running" /\ cancelled) ~> (waiter[u] = "done")

\* A goroutine that no cell's change released has ended on the cancellation.
C11_Witness ==
    \E u \in Calls :
        /\ waiter[u] = "done" /\ uret[u] = "closed"
        /\ cancelled /\ ~snapCancelled[u] /\ ~SnapshotFired(u)
        /\ Len(toWatch[u]) >= 1

\* C12: Aggregate returns the cell's value of the time of the call, adds the
\* cell to the registry if it is not armed, and leaves Len alone if it is.
C12_IdempotentRegistration ==
    [][\A c \in Cells : Aggregate(c) =>
          /\ ret'.cell = c /\ ret'.val = value[c]
          /\ DOMAIN m' = DOMAIN m \cup {c}
          /\ AggLen' = IF c \in DOMAIN m THEN AggLen ELSE AggLen + 1]_vars

\* Both cells registered, one of them a second time after it changed: the
\* value returned is the changed one and Len is the number of cells.
C12_Witness ==
    /\ ret.op = "Aggregate"
    /\ regGen[ret.cell] > firstGen[ret.cell]
    /\ ret.val = value[ret.cell] /\ ret.val # InitialValue(ret.cell)
    /\ AggLen = NumCells

\* C13: an Update whose transform fails leaves value, channel and the closed
\* channels as they were and returns the value as old and new with the error.
C13_FailedUpdate ==
    [][\A c \in Cells, t \in Transforms : (Update(c, t) /\ TransformFails(t)) =>
          /\ value' = value /\ signal' = signal /\ closed' = closed /\ gen' = gen
          /\ ret' = [op |-> "Update", cell |-> c, val |-> value[c], old |-> value[c], ok |-> FALSE]]_vars

\* A failed Update on a changed cell whose pair an observer holds: the
\* observer's channel is still open.
C13_Witness ==
    /\ ret.op = "Update" /\ ~ret.ok /\ ret.val = ret.old
    /\ obs.cell = ret.cell /\ obs.gen = gen[obs.cell] /\ obs.gen >= 1
    /\ ~Fired(obs.sig)
    /\ ret.val = value[ret.cell]

\* C18: Aggregate on a cell that is not armed captures the cell's current,
\* open channel, and a change of an armed cell closes the captured channel.
C18_Rearm ==
    [][\A c \in Cells :
          /\ (Aggregate(c) /\ c \notin DOMAIN m) =>
                (m'[c] = signal[c] /\ ~(m'[c] \in closed') /\ regGen'[c] = gen[c])
          /\ (c \in DOMAIN m /\ gen'[c] > gen[c]) => m[c] \in closed']_vars

\* A cell that Choose removed and Aggregate armed again has changed once
\* more and is reportable.
C18_Witness ==
    \E c \in rearmed :
        /\ c \in DOMAIN m
        /\ regGen[c] >= 1
        /\ gen[c] > regGen[c]
        /\ Fired(m[c])

\* C19: with the channel of an Updated call closed, ctx not cancelled and the
\* registry as the call's snapshot left it, Choose returns a cell changed
\* since its registration: the changed cell itself when there is only one.
C19_ChooseAfterUpdated ==
    [][(/\ Choose
        /\ ~cancelled
        /\ \E u \in Calls :
              /\ upc[u] = "returned" /\ uret[u] = "closed"
              /\ Len(toWatch[u]) = AggLen
              /\ Range(toWatch[u]) = {m[c] : c \in DOMAIN m}) =>
          /\ ret'.ok
          /\ ret'.cell \in ChangedSinceAggregate
          /\ \A c \in Cells : ChangedSinceAggregate = {c} => ret'.cell = c]_vars

\* The goroutine closed the channel on the change of one of two registered
\* cells and Choose returned that cell.
C19_Witness ==
    \E u \in Calls :
        /\ upc[u] = "returned" /\ uret[u] = "closed" /\ waiter[u] = "done"
        /\ ~cancelled
        /\ ret.op = "Choose" /\ ret.ok
        /\ Len(toWatch[u]) = NumCells /\ AggLen = NumCells - 1
        /\ \A c \in DOMAIN m : m[c] \in Range(toWatch[u]) /\ ~Fired(m[c])

\* A step in which WaitForChange returns, to its caller or to DoWhenChanged.
WaitForChangeReturns ==
    /\ Waiting(nx.fn) = "WaitForChange"
    /\ nx.pc \in {"get", "select"}
    /\ nx'.pc \in {"check", "returned"}

\* A step in which a Do loop invokes its callback.
CallbackInvoked ==
    /\ IsLoop(nx.fn)
    /\ nx.pc = "call"
    /\ nx' # nx

\* C14: DoWhenChanged never invokes its callback with new equal to old,
\* whatever is Set on the source, Sets of the value it already holds included.
C14_CallbackOnChange == cb.fn = "DoWhenChanged" => cb.new # cb.old

\* The callback has run after a Set of the value the source held (the wait
\* observed the channel of the second generation) and a Set of another value.
C14_Witness ==
    /\ cb.fn = "DoWhenChanged"
    /\ cb.old = 1
    /\ cb.new = 10
    /\ value[Src] = 10
    /\ gen[Src] = 2
    /\ nx.chg = signal[Src]

\* C15: in DoWhenChanged and DoWhenChangedOrInterval the old argument of a
\* callback invocation is the new argument of the previous invocation that
\* returned nil, or start for the first one, and the function returns that
\* value, whether it ends by a callback error or because ctx is stopping.
C15_LastProcessed ==
    /\ [](IsLoop(nx.fn) /\ nx.pc = "returned" =>
            nx.rv = lastOk /\ nx.why \in {"stopping", "error"})
    /\ [][CallbackInvoked =>
            /\ cb'.old = lastOk
            /\ cb'.new = nx.nxt
            /\ lastOk' = IF cb'.err = "nil" THEN cb'.new ELSE lastOk]_vars

\* A second invocation, after one that returned nil, fails: the function
\* returns the new argument of the first.
C15_Witness ==
    /\ nx.fn = "DoWhenChanged"
    /\ nx.pc = "returned"
    /\ nx.why = "error"
    /\ nx.arg = 1
    /\ cb.old = 10
    /\ cb.new = 1
    /\ nx.rv = 10

\* C16: WaitForChange returns a value different from current when it returns
\* for another reason than ctx stopping, and when it returns because ctx is
\* stopping it returns the value the source holds at that moment.
C16_Original ==
    [][WaitForChangeReturns =>
        /\ nx'.why # "stopping" => nx'.nxt # nx.cur
        /\ nx'.why = "stopping" => nx'.nxt = value'[Src]]_vars

\* C17 as stated: for every combinator the returned values alone tell a call
\* that was abandoned from one that was satisfied, and WaitForValue returns nil
\* only if it saw the expected value.
C17_Original ==
    /\ (nx.pc = "returned" /\ prev[1] = nx.fn /\ prev[2] = Outcome[2]) =>
            {prev[3], Outcome[3]} # {"satisfied", "abandoned"}
    /\ (nx.pc = "returned" /\ nx.fn = "WaitForValue") =>
            /\ nx.err = "nil" => nx.nxt = nx.arg
            /\ nx.why \in {"stopping", "done"} => nx.err # "nil"

\* C17, amended: WaitForChange returns current iff ctx was stopping,
\* WaitForValue returns nil iff it saw the expected value and an error iff ctx
\* was stopping or done before that, the Do loops return a nil error iff ctx
\* was stopping; WaitForChangeOrDuration returns current both when the
\* duration elapsed and when ctx was stopping, and in the latter case
\* ctx.IsStopping() holds from then on. Only WaitForValue returns because ctx
\* is done.
C17_Amended ==
    nx.pc = "returned" =>
        /\ nx.fn = "WaitForChange" =>
                (nx.rv = nx.arg <=> Class(nx.why) = "abandoned")
        /\ nx.fn = "WaitForValue" =>
                /\ nx.err = "nil" <=> nx.why = "found"
                /\ nx.err = "nil" => nx.nxt = nx.arg
                /\ nx.err # "nil" => ((stopping \/ cancelled) /\ nx.nxt # nx.arg)
                /\ nx.err = "stopping" => stopping
                /\ nx.err = "done" => cancelled
        /\ IsLoop(nx.fn) => (nx.err = "nil" <=> Class(nx.why) = "abandoned")
        /\ nx.fn = "WaitForChangeOrDuration" =>
                /\ nx.rv # nx.arg <=> nx.why = "changed"
                /\ Class(nx.why) = "abandoned" => stopping
        /\ nx.why = "done" => nx.fn = "WaitForValue"
        /\ nx.why = "stopping" => stopping

\* WaitForChangeOrDuration returned its current argument once because the
\* duration elapsed and then because ctx was stopping.
C17_Witness ==
    /\ nx.pc = "returned"
    /\ nx.fn = "WaitForChangeOrDuration"
    /\ nx.why = "stopping"
    /\ prev = <<"WaitForChangeOrDuration", "current", "satisfied">>

\* C20: the registry lock is never held by a thread that has to wait (the
\* holder's critical section can always run, and the Updated goroutine exists
\* only after the read lock is released), so every started Aggregate, Choose,
\* Len and Updated call completes, whatever the producers, the context and
\* the Updated goroutine do or fail to do.
C20_DeadlockFree ==
    /\ [](\A t \in Threads :
            /\ tpc[t] = "held" => ENABLED CriticalSection(t)
            /\ tpc[t] = "held" => (IF Writes(top[t])
                                   THEN writer = t /\ readers = {}
                                   ELSE writer = Nil /\ t \in readers)
            /\ (tpc[t] = "held" /\ top[t] = "Updated") => waiter[1] # "running")
    /\ \A t \in Threads : (tpc[t] = "lock") ~> Completed(t)

\* Both threads are inside calls, one holds the lock and the other waits for
\* it, while an Updated goroutine is blocked on a channel nobody has closed.
C20_Witness ==
    /\ \E t, s \in Threads : tpc[t] = "held" /\ tpc[s] = "lock" /\ Writes(top[t])
    /\ waiter[1] = "running"
    /\ ~cancelled
    /\ ~SnapshotFired(1)

====
